---- MODULE Spec2Model ----
(***************************************************************************)
(* A model of src/midi/core.rs of poly: the Event total order, the         *)
(* EventGrid algebra (+, *, cycle_grid, to_delta), the group flattener,    *)
(* the k-way merge of EventIterator and flatten_and_merge.                 *)
(***************************************************************************)
EXTENDS Integers, Sequences, FiniteSets, TLC

VARIABLES
    pc,                 \* which entry point runs, and how far it got
    x, y, z,            \* the events handed to Event::cmp
    ords,               \* the Orderings Event::cmp returned
    vec,                \* a Vec<Event<Tick>> being sorted
    ga, gb,             \* the EventGrid operands
    pat,                \* the pattern handed to the flattener
    op,                 \* the grid operation applied and its arguments
    res,                \* the EventGrid an operation returned
    parts_and_groups,   \* HashMap<Part, Groups> handed to flatten_and_merge
    time_signature,     \* TimeSignature handed to flatten_and_merge
    plan,               \* the locals of flatten_and_merge
    midi_tempo,         \* MidiTempo handed to create_tracks
    tracks,             \* what create_tracks returned
    it,                 \* EventIterator: one Peekable per part
    srcs,               \* the four grids EventIterator::new was given
    out,                \* the events next() yielded so far
    ret                 \* the last value next() returned

ordVars == <<x, y, z, ords, vec>>
gridVars == <<ga, gb, pat, op, res>>
runVars == <<parts_and_groups, time_signature, plan, midi_tempo, tracks>>
iterVars == <<it, srcs, out, ret>>
vars == <<pc, ordVars, gridVars, runVars, iterVars>>

(***************************************************************************)
(* Bounds of the model.                                                    *)
(***************************************************************************)
MaxOrdTick == 2
MaxEvents == 3
MaxTimes == 2
MaxNotes == 3
MaxSide == 1
MaxSrcEvents == 4

(***************************************************************************)
(* Program constants.                                                      *)
(***************************************************************************)
BAR_LIMIT == 1000
TICKS_PER_QUARTER_NOTE == 48

None == "None"
Less == "Less"
Equal == "Equal"
Greater == "Greater"

(***************************************************************************)
(* enum Part, in declaration order; derive(Ord) compares the positions.    *)
(***************************************************************************)
KickDrum == "KickDrum"
SnareDrum == "SnareDrum"
HiHat == "HiHat"
CrashCymbal == "CrashCymbal"
Part == <<KickDrum, SnareDrum, HiHat, CrashCymbal>>
Parts == {Part[i] : i \in 1..Len(Part)}

PartIndex(p) ==
    CASE p = KickDrum -> 1
      [] p = SnareDrum -> 2
      [] p = HiHat -> 3
      [] p = CrashCymbal -> 4

IntCmp(a, b) == IF a < b THEN Less ELSE IF a = b THEN Equal ELSE Greater

PartCmp(a, b) == IntCmp(PartIndex(a), PartIndex(b))

NoteOn(p) == [tag |-> "NoteOn", part |-> p]
NoteOff(p) == [tag |-> "NoteOff", part |-> p]
Event(t, et) == [tick |-> t, event_type |-> et]

(***************************************************************************)
(* impl Ord for EventType.                                                 *)
(***************************************************************************)
EventTypeCmpOnBeforeOff(s, o) ==
    CASE s.tag = "NoteOn" /\ o.tag = "NoteOn" -> PartCmp(s.part, o.part)
      [] s.tag = "NoteOn" /\ o.tag = "NoteOff" ->
            IF PartCmp(s.part, o.part) = Equal THEN Less ELSE PartCmp(s.part, o.part)
      [] s.tag = "NoteOff" /\ o.tag = "NoteOn" ->
            IF PartCmp(s.part, o.part) = Equal THEN Greater ELSE PartCmp(s.part, o.part)
      [] s.tag = "NoteOff" /\ o.tag = "NoteOff" -> PartCmp(s.part, o.part)

EventTypeCmp(s, o) ==
    CASE s.tag = "NoteOn" /\ o.tag = "NoteOn" -> PartCmp(s.part, o.part)
      [] s.tag = "NoteOn" /\ o.tag = "NoteOff" ->
            IF PartCmp(s.part, o.part) = Equal THEN Greater ELSE PartCmp(s.part, o.part)
      [] s.tag = "NoteOff" /\ o.tag = "NoteOn" ->
            IF PartCmp(s.part, o.part) = Equal THEN Less ELSE PartCmp(s.part, o.part)
      [] s.tag = "NoteOff" /\ o.tag = "NoteOff" -> PartCmp(s.part, o.part)

(***************************************************************************)
(* impl Ord for Event<T>.                                                  *)
(***************************************************************************)
EventCmp(s, o) ==
    IF s.tick = o.tick
    THEN EventTypeCmp(s.event_type, o.event_type)
    ELSE IntCmp(s.tick, o.tick)

\* A Vec holds its elements: the function is tabulated once, as a sequence.
Vec(f) == <<>> \o f

(***************************************************************************)
(* Vec::sort_by(|x, y| x.cmp(y)) and Vec::sort(): both are stable and both *)
(* end in Event::cmp (sort() goes through PartialOrd::lt of Event<T>,      *)
(* which is written in terms of cmp).  A stable sort puts s[i] after the   *)
(* elements that compare Less than it and after the Equal ones that stood  *)
(* before it; a vector already in order is left as it is.                  *)
(***************************************************************************)
IsSorted(s) == \A i \in 1..(Len(s) - 1) : EventCmp(s[i], s[i + 1]) # Greater

SortEvents(s) ==
    IF IsSorted(s) THEN s
    ELSE LET before == Vec([i \in DOMAIN s |->
                               Cardinality({j \in DOMAIN s :
                                   \/ EventCmp(s[j], s[i]) = Less
                                   \/ EventCmp(s[j], s[i]) = Equal /\ j < i})])
         IN  Vec([r \in DOMAIN s |-> s[CHOOSE i \in DOMAIN s : before[i] = r - 1]])

(***************************************************************************)
(* struct EventGrid<T> { events, length } and EventGrid::empty().          *)
(***************************************************************************)
EventGrid(es, l) == [length |-> l, events |-> es]

Empty == EventGrid(<<>>, 0)

ShiftEvents(es, d) == Vec([i \in 1..Len(es) |-> Event(es[i].tick + d, es[i].event_type)])

(***************************************************************************)
(* impl Add for EventGrid<T>: the other grid's events are moved by         *)
(* self.length, appended, and the whole vector is sorted again.            *)
(***************************************************************************)
AddGridShiftByOther(self, other) ==
    EventGrid(SortEvents(self.events \o ShiftEvents(other.events, other.length)),
              self.length + other.length)

AddGridNoSort(self, other) ==
    EventGrid(self.events \o ShiftEvents(other.events, self.length),
              self.length + other.length)

AddGrid(self, other) ==
    EventGrid(SortEvents(self.events \o ShiftEvents(other.events, self.length)),
              self.length + other.length)

(***************************************************************************)
(* impl Mul for EventGrid<T>.                                              *)
(***************************************************************************)
MulGrid(self, other) ==
    EventGrid(SortEvents(self.events \o other.events), self.length + other.length)

(***************************************************************************)
(* cycle_grid: `for _ in 1..(times.0 + 1) { grid = grid + event_grid }`.   *)
(***************************************************************************)
RECURSIVE CycleLoop(_, _, _)
CycleLoop(grid, event_grid, k) ==
    IF k = 0 THEN grid ELSE CycleLoop(AddGrid(grid, event_grid), event_grid, k - 1)

CycleGridOneTooMany(event_grid, times) == CycleLoop(Empty, event_grid, times + 1)

CycleGrid(event_grid, times) == CycleLoop(Empty, event_grid, times)

(***************************************************************************)
(* EventGrid<Tick>::to_delta.  `e.tick - time` is a u128 subtraction: it   *)
(* cannot go below zero on the ascending grids this model hands it.  The   *)
(* grid returned starts as EventGrid::empty() and keeps length Tick(0).    *)
(***************************************************************************)
RECURSIVE ToDeltaLoop(_, _, _, _)
ToDeltaLoop(events, i, time, delta_grid) ==
    IF i > Len(events) THEN delta_grid
    ELSE LET delta == events[i].tick - time IN
         ToDeltaLoop(events, i + 1, time + delta,
                     EventGrid(Append(delta_grid.events,
                                      Event(delta, events[i].event_type)),
                               delta_grid.length))

RECURSIVE ToDeltaLoopAbsolute(_, _, _, _)
ToDeltaLoopAbsolute(events, i, time, delta_grid) ==
    IF i > Len(events) THEN delta_grid
    ELSE LET delta == events[i].tick - time IN
         ToDeltaLoopAbsolute(events, i + 1, time,
                     EventGrid(Append(delta_grid.events,
                                      Event(delta, events[i].event_type)),
                               delta_grid.length))

ToDeltaNoRunningTime(self) == ToDeltaLoopAbsolute(self.events, 1, 0, Empty)

ToDelta(self) == ToDeltaLoop(self.events, 1, 0, Empty)

(***************************************************************************)
(* Note lengths in ticks: BasicLength::to_ticks, ModdedLength::to_ticks,   *)
(* Length::to_ticks.                                                       *)
(***************************************************************************)
Plain(blen) == [kind |-> "Plain", blen |-> blen]
Dotted(blen) == [kind |-> "Dotted", blen |-> blen]
Simple(mlen) == [kind |-> "Simple", first |-> mlen]
Tied(first, second) == [kind |-> "Tied", first |-> first, second |-> second]
Triplet(mlen) == [kind |-> "Triplet", first |-> mlen]

BasicToTicks(blen) ==
    CASE blen = "Whole" -> TICKS_PER_QUARTER_NOTE * 4
      [] blen = "Half" -> TICKS_PER_QUARTER_NOTE * 2
      [] blen = "Fourth" -> TICKS_PER_QUARTER_NOTE
      [] blen = "Eighth" -> TICKS_PER_QUARTER_NOTE \div 2
      [] blen = "Sixteenth" -> TICKS_PER_QUARTER_NOTE \div 4
      [] blen = "ThirtySecond" -> TICKS_PER_QUARTER_NOTE \div 8
      [] blen = "SixtyFourth" -> TICKS_PER_QUARTER_NOTE \div 16

ModdedToTicks(mlen) ==
    IF mlen.kind = "Plain" THEN BasicToTicks(mlen.blen)
    ELSE LET whole == BasicToTicks(mlen.blen)
             half == whole \div 2
         IN  whole + half

LengthToTicks(length) ==
    CASE length.kind = "Simple" -> ModdedToTicks(length.first)
      [] length.kind = "Tied" -> ModdedToTicks(length.first) + ModdedToTicks(length.second)
      [] length.kind = "Triplet" -> (ModdedToTicks(length.first) * 2) \div 3

(***************************************************************************)
(* The pattern AST of the dsl: Group { notes, length, times }, and         *)
(* GroupOrNote = SingleGroup(Group) | SingleNote(Hit | Rest).              *)
(***************************************************************************)
Hit == [kind |-> "SingleNote", note |-> "Hit"]
Rest == [kind |-> "SingleNote", note |-> "Rest"]
SingleGroup(g) == [kind |-> "SingleGroup", group |-> g]
Group(notes, length, times) == [notes |-> notes, length |-> length, times |-> times]

(***************************************************************************)
(* flatten_group: the value is the grid returned and the cursor *start as  *)
(* the call leaves it.                                                     *)
(***************************************************************************)
RECURSIVE FlattenGroup(_, _, _)
RECURSIVE FlattenNotes(_, _, _, _, _, _)
FlattenNotes(notes, i, note_length, part, grid, time) ==
    IF i > Len(notes) THEN [grid |-> grid, time |-> time]
    ELSE LET entry == notes[i] IN
         IF entry.kind = "SingleGroup"
         THEN LET r == FlattenGroup(entry.group, part, time)
                  eg == r.grid
              IN  FlattenNotes(notes, i + 1, note_length, part,
                               EventGrid(grid.events \o eg.events,
                                         grid.length + eg.length),
                               r.time)
         ELSE IF entry.note = "Rest"
         THEN LET rest_end == time + note_length IN
              FlattenNotes(notes, i + 1, note_length, part,
                           EventGrid(grid.events, rest_end), rest_end)
         ELSE LET note_end == time + note_length
                  note_on == Event(time, NoteOn(part))
                  note_off == Event(note_end, NoteOff(part))
              IN  FlattenNotes(notes, i + 1, note_length, part,
                               EventGrid(grid.events \o <<note_on, note_off>>,
                                         note_end),
                               note_end)

FlattenGroupNoCycle(group, part, start) ==
    LET note_length == LengthToTicks(group.length)
        r == FlattenNotes(group.notes, 1, note_length, part, Empty, start)
    IN  [grid |-> EventGrid(SortEvents(r.grid.events), r.grid.length), time |-> r.time]

FlattenGroupCycledTwice(group, part, start) ==
    LET note_length == LengthToTicks(group.length)
        r == FlattenNotes(group.notes, 1, note_length, part, Empty, start)
        grid == EventGrid(SortEvents(r.grid.events), r.grid.length)
    IN  [grid |-> CycleGrid(CycleGrid(grid, group.times), group.times), time |-> r.time]

FlattenGroup(group, part, start) ==
    LET note_length == LengthToTicks(group.length)
        r == FlattenNotes(group.notes, 1, note_length, part, Empty, start)
        grid == EventGrid(SortEvents(r.grid.events), r.grid.length)
    IN  [grid |-> CycleGrid(grid, group.times), time |-> r.time]

(***************************************************************************)
(* flatten_groups.                                                         *)
(***************************************************************************)
RECURSIVE FlattenGroupsLoop(_, _, _, _, _)
FlattenGroupsLoop(part, groups, i, grid, time) ==
    IF i > Len(groups) THEN grid
    ELSE LET r == FlattenGroup(groups[i], part, time) IN
         FlattenGroupsLoop(part, groups, i + 1, AddGrid(grid, r.grid), r.time)

FlattenGroups(part, groups) == FlattenGroupsLoop(part, groups, 1, Empty, 0)

(***************************************************************************)
(* The values the variables hold while another entry point runs.           *)
(***************************************************************************)
NoEvent == Event(0, NoteOn(KickDrum))
NoOrds == [xy |-> Equal, yx |-> Equal, yz |-> Equal, zy |-> Equal, xz |-> Equal, zx |-> Equal]
NoPattern == [groups |-> <<>>, part |-> KickDrum, start |-> 0]
NoOp == [name |-> "none", times |-> 0]
NoIter == [kick |-> <<>>, snare |-> <<>>, hihat |-> <<>>, crash |-> <<>>]
NotCalled == [tag |-> "NotCalled"]
NoTimeSignature == [numerator |-> 0, denominator |-> "Whole"]
NoPlan == [outcome |-> "none"]
NoTracks == [tag |-> "NotReturned"]

OrdIdle == x = NoEvent /\ y = NoEvent /\ z = NoEvent /\ ords = NoOrds /\ vec = <<>>
GridIdle == ga = Empty /\ gb = Empty /\ pat = NoPattern /\ op = NoOp /\ res = Empty
RunIdle ==
    /\ parts_and_groups = <<>> /\ time_signature = NoTimeSignature /\ plan = NoPlan
    /\ midi_tempo = 0 /\ tracks = NoTracks
IterIdle == it = NoIter /\ srcs = NoIter /\ out = <<>> /\ ret = NotCalled

EventTypes == {NoteOn(p) : p \in Parts} \cup {NoteOff(p) : p \in Parts}

(***************************************************************************)
(* Event::cmp on three events, and the sort of test_ord_event_t.           *)
(***************************************************************************)
OrdEvents == {Event(t, et) : t \in 0..MaxOrdTick, et \in EventTypes}

InitOrd ==
    /\ pc = "ord"
    /\ x \in OrdEvents /\ y \in OrdEvents /\ z \in OrdEvents
    /\ ords = NoOrds /\ vec = <<>>
    /\ GridIdle /\ RunIdle /\ IterIdle

Compare ==
    /\ pc = "ord"
    /\ ords' = [xy |-> EventCmp(x, y), yx |-> EventCmp(y, x),
                yz |-> EventCmp(y, z), zy |-> EventCmp(z, y),
                xz |-> EventCmp(x, z), zx |-> EventCmp(z, x)]
    /\ pc' = "compared"
    /\ UNCHANGED <<x, y, z, vec, gridVars, runVars, iterVars>>

SortVec ==
    /\ pc = "compared"
    /\ vec' = SortEvents(<<x, y, z>>)
    /\ pc' = "sorted"
    /\ UNCHANGED <<x, y, z, ords, gridVars, runVars, iterVars>>

NextOrd == Compare \/ SortVec

SpecOrd == InitOrd /\ [][NextOrd]_vars

(***************************************************************************)
(* The grid algebra on arbitrary sorted grids, and the flattener on        *)
(* pattern trees.                                                          *)
(***************************************************************************)
GridParts == {KickDrum, HiHat}
GridTicks == {0, 1}
GridLengths == {0, 1, 2}
GridEvents ==
    {Event(t, et) : t \in GridTicks,
                    et \in {NoteOn(p) : p \in GridParts} \cup {NoteOff(p) : p \in GridParts}}

WideTicks == {0, 1, 3}
WideEvents ==
    {Event(t, et) : t \in WideTicks,
                    et \in {NoteOn(p) : p \in GridParts} \cup {NoteOff(p) : p \in GridParts}}
WideGrids(n) ==
    {EventGrid(s, l) : s \in {w \in [1..n -> WideEvents] : IsSorted(w)}, l \in GridLengths}

SortedSeqs(n) == {s \in [1..n -> GridEvents] : IsSorted(s)}
SortedGrids(n) == {EventGrid(s, l) : s \in SortedSeqs(n), l \in GridLengths}

PatLengths == {Simple(Plain("Eighth")), Simple(Dotted("Sixteenth"))}
PatStarts == {0, 24}
TermSeqs(n) == UNION {[1..k -> {Hit, Rest}] : k \in 0..n}
FlatGroups ==
    {Group(ns, l, t) : ns \in TermSeqs(MaxNotes), l \in PatLengths, t \in 0..MaxTimes}
InnerGroups == {g \in FlatGroups : Len(g.notes) \in 1..(MaxSide + 1)}
NestedGroups ==
    {Group(side[1] \o <<SingleGroup(g)>> \o side[2], l, t) :
        side \in {sd \in TermSeqs(MaxSide) \X TermSeqs(MaxSide) :
                     Len(sd[1]) + Len(sd[2]) <= MaxSide},
        g \in InnerGroups, l \in PatLengths, t \in 0..MaxTimes}
ListGroups == {g \in FlatGroups : Len(g.notes) <= MaxSide}
GroupLists == UNION {[1..k -> ListGroups] : k \in 0..2}

InitGrids ==
    /\ pc = "grids"
    /\ \/ \E n \in 0..MaxEvents : \E m \in 0..(MaxEvents - n) :
             ga \in SortedGrids(n) /\ gb \in SortedGrids(m)
       \/ \E n \in 0..MaxEvents : ga \in WideGrids(n) /\ gb = Empty
       \/ \E n \in 0..MaxEvents : ga = Empty /\ gb \in WideGrids(n)
    /\ pat = NoPattern /\ op = NoOp /\ res = Empty
    /\ OrdIdle /\ RunIdle /\ IterIdle

InitPattern ==
    /\ pc = "pattern"
    /\ \/ \E g \in FlatGroups \cup NestedGroups, st \in PatStarts :
             pat = [groups |-> <<g>>, part |-> KickDrum, start |-> st]
       \/ \E gs \in GroupLists, p \in GridParts :
             pat = [groups |-> gs, part |-> p, start |-> 0]
    /\ ga = Empty /\ gb = Empty /\ op = NoOp /\ res = Empty
    /\ OrdIdle /\ RunIdle /\ IterIdle

InitGrid == InitGrids \/ InitPattern

Applied(name, n, r) ==
    /\ op' = [name |-> name, times |-> n]
    /\ res' = r
    /\ pc' = "done"
    /\ UNCHANGED <<ga, gb, pat, ordVars, runVars, iterVars>>

Add == pc = "grids" /\ Applied("add", 0, AddGrid(ga, gb))

Mul == pc = "grids" /\ Applied("mul", 0, MulGrid(ga, gb))

Cycle == pc = "grids" /\ gb = Empty /\ \E n \in 0..MaxTimes : Applied("cycle", n, CycleGrid(ga, n))

ToDeltaOp == pc = "grids" /\ gb = Empty /\ Applied("to_delta", 0, ToDelta(ga))

FlattenGroupOp ==
    /\ pc = "pattern" /\ Len(pat.groups) = 1
    /\ Applied("flatten_group", 0, FlattenGroup(pat.groups[1], pat.part, pat.start).grid)

FlattenGroupsOp ==
    /\ pc = "pattern" /\ pat.start = 0
    /\ Applied("flatten_groups", 0, FlattenGroups(pat.part, pat.groups))

NextGrid == Add \/ Mul \/ Cycle \/ ToDeltaOp \/ FlattenGroupOp \/ FlattenGroupsOp

SpecGrid == InitGrid /\ [][NextGrid]_vars

(***************************************************************************)
(* struct EventIterator, EventIterator::new and Iterator::next.  A         *)
(* Peekable is the sequence of the events it has not yielded yet.          *)
(***************************************************************************)
EventIteratorNew(kick_grid, snare_grid, hihat_grid, crash_grid) ==
    [kick |-> kick_grid.events, snare |-> snare_grid.events,
     hihat |-> hihat_grid.events, crash |-> crash_grid.events]

Peekable(iter, p) ==
    CASE p = KickDrum -> iter.kick
      [] p = SnareDrum -> iter.snare
      [] p = HiHat -> iter.hihat
      [] p = CrashCymbal -> iter.crash

\* The keys of the BTreeMap `candidates`: the parts whose peek() is Some.
Candidates(iter) == {p \in Parts : Peekable(iter, p) # <<>>}

Peek(iter, p) == Peekable(iter, p)[1]

\* Iterator::next of a Peekable: nothing changes once it is exhausted.
Pop(s) == IF s = <<>> THEN s ELSE Tail(s)

\* candidates.iter().min_by_key(|(_, x)| *x): the map is walked in the
\* order of its keys and the first of the least events is kept.
MinPartByPart(iter) ==
    CHOOSE p \in Candidates(iter) :
        \A q \in Candidates(iter) : PartIndex(p) <= PartIndex(q)

MinPart(iter) ==
    CHOOSE p \in Candidates(iter) :
        \A q \in Candidates(iter) :
            \/ EventCmp(Peek(iter, p), Peek(iter, q)) = Less
            \/ /\ EventCmp(Peek(iter, p), Peek(iter, q)) = Equal
               /\ PartIndex(p) <= PartIndex(q)

\* match min_part { KickDrum => self.kick.next(), ... }
AdvanceCrashPopsHiHat(iter, min_part) ==
    CASE min_part = KickDrum -> [iter EXCEPT !.kick = Pop(@)]
      [] min_part = SnareDrum -> [iter EXCEPT !.snare = Pop(@)]
      [] min_part = HiHat -> [iter EXCEPT !.hihat = Pop(@)]
      [] min_part = CrashCymbal -> [iter EXCEPT !.hihat = Pop(@)]

Advance(iter, min_part) ==
    CASE min_part = KickDrum -> [iter EXCEPT !.kick = Pop(@)]
      [] min_part = SnareDrum -> [iter EXCEPT !.snare = Pop(@)]
      [] min_part = HiHat -> [iter EXCEPT !.hihat = Pop(@)]
      [] min_part = CrashCymbal -> [iter EXCEPT !.crash = Pop(@)]

Some(e) == [tag |-> "Some", event |-> e]
NoneReturned == [tag |-> "None"]

\* One call of next(), for as long as the caller drains the iterator.
IterNext ==
    /\ pc = "iter" /\ ret.tag # "None"
    /\ \/ /\ Candidates(it) # {}
          /\ LET min_part == MinPart(it)
                 min_event == Peek(it, min_part)
             IN  /\ it' = Advance(it, min_part)
                 /\ out' = Append(out, min_event)
                 /\ ret' = Some(min_event)
       \/ /\ Candidates(it) = {}
          /\ ret' = NoneReturned
          /\ UNCHANGED <<it, out>>
    /\ UNCHANGED <<pc, srcs, ordVars, gridVars, runVars>>

(***************************************************************************)
(* The merge on its own: EventIterator::new on four sorted grids, each of  *)
(* its own part's events, then next() until None.                          *)
(***************************************************************************)
SrcTicks == {0, 1}
SrcGrids(p, n) ==
    {EventGrid(s, 0) :
        s \in {w \in [1..n -> {Event(t, et) : t \in SrcTicks, et \in {NoteOn(p), NoteOff(p)}}] :
                  IsSorted(w)}}

InitMerge ==
    /\ pc = "iter"
    /\ \E nk \in 0..MaxSrcEvents : \E ns \in 0..(MaxSrcEvents - nk) :
       \E nh \in 0..(MaxSrcEvents - nk - ns) : \E nc \in 0..(MaxSrcEvents - nk - ns - nh) :
       \E kick_grid \in SrcGrids(KickDrum, nk), snare_grid \in SrcGrids(SnareDrum, ns),
          hihat_grid \in SrcGrids(HiHat, nh), crash_grid \in SrcGrids(CrashCymbal, nc) :
            it = EventIteratorNew(kick_grid, snare_grid, hihat_grid, crash_grid)
    /\ srcs = it
    /\ out = <<>> /\ ret = NotCalled
    /\ OrdIdle /\ GridIdle /\ RunIdle

NextMerge == IterNext

SpecMerge == InitMerge /\ [][NextMerge]_vars

(***************************************************************************)
(* The collaborators of flatten_and_merge that live in the dsl and time    *)
(* modules: KnownLength::to_128th of lengths, groups and time signatures,  *)
(* and TimeSignature::converges.  Pattern lengths and the bar length are   *)
(* counted in 128th notes; converges looks for the least number of bars,   *)
(* up to the ceiling, that every pattern length divides.                   *)
(***************************************************************************)
BasicTo128th(blen) ==
    CASE blen = "Whole" -> 128
      [] blen = "Half" -> 64
      [] blen = "Fourth" -> 32
      [] blen = "Eighth" -> 16
      [] blen = "Sixteenth" -> 8
      [] blen = "ThirtySecond" -> 4
      [] blen = "SixtyFourth" -> 2

ModdedTo128th(mlen) ==
    IF mlen.kind = "Plain" THEN BasicTo128th(mlen.blen)
    ELSE BasicTo128th(mlen.blen) + BasicTo128th(mlen.blen) \div 2

LengthTo128th(length) ==
    CASE length.kind = "Simple" -> ModdedTo128th(length.first)
      [] length.kind = "Tied" -> ModdedTo128th(length.first) + ModdedTo128th(length.second)
      [] length.kind = "Triplet" -> (ModdedTo128th(length.first) * 2) \div 3

RECURSIVE GroupTo128th(_)
RECURSIVE NotesTo128th(_, _, _)
NotesTo128th(notes, i, note_length) ==
    IF i > Len(notes) THEN 0
    ELSE (IF notes[i].kind = "SingleGroup" THEN GroupTo128th(notes[i].group) ELSE note_length)
         + NotesTo128th(notes, i + 1, note_length)

GroupTo128th(group) ==
    NotesTo128th(group.notes, 1, LengthTo128th(group.length)) * group.times

TimeSignature(numerator, denominator) == [numerator |-> numerator, denominator |-> denominator]

TimeSignatureTo128th(ts) == ts.numerator * BasicTo128th(ts.denominator)

SomeBars(b) == [tag |-> "Some", value |-> b]
NoBars == [tag |-> "None", value |-> 0]

EveryLengthDivides(lengths, total) == \A l \in lengths : l > 0 /\ total % l = 0

Converges(ts, lengths) ==
    LET bar == TimeSignatureTo128th(ts)
        found(bars) == EveryLengthDivides(lengths, bars * bar)
    IN  IF \E bars \in 1..BAR_LIMIT : found(bars)
        THEN SomeBars(CHOOSE bars \in 1..BAR_LIMIT :
                          found(bars) /\ \A fewer \in 1..(bars - 1) : ~found(fewer))
        ELSE NoBars

(***************************************************************************)
(* flatten_and_merge.  `groups` is a function from the parts given to      *)
(* their Groups.                                                           *)
(***************************************************************************)
\* x.0.iter().fold(0, |acc, n| acc + n.to_128th())
RECURSIVE GroupsTo128th(_, _)
GroupsTo128th(groups, i) ==
    IF i > Len(groups) THEN 0 ELSE GroupTo128th(groups[i]) + GroupsTo128th(groups, i + 1)

LengthMap(groups) == [p \in DOMAIN groups |-> GroupsTo128th(groups[p], 1)]

ConvergesOverBars(groups, ts) ==
    LET c == Converges(ts, {LengthMap(groups)[p] : p \in DOMAIN groups})
    IN  IF c.tag = "Some" THEN c.value ELSE BAR_LIMIT

LengthLimit(groups, ts) == ConvergesOverBars(groups, ts) * TimeSignatureTo128th(ts)

\* `length_limit / length_128th` panics when the pattern length is zero.
DividesByZero(groups) == \E p \in DOMAIN groups : LengthMap(groups)[p] = 0

\* The `match groups.get(&part)` of each of the four parts: (grid, repeats).
PartGrid(groups, ts, p) ==
    IF p \in DOMAIN groups
    THEN LET length_128th == LengthMap(groups)[p]
             number_of_groups == Len(groups[p])
             times == LengthLimit(groups, ts) \div length_128th
         IN  [grid |-> FlattenGroups(p, groups[p]),
              repeats |-> number_of_groups * times]
    ELSE [grid |-> Empty, repeats |-> 0]

\* cycle_grid(grid, Times(repeats as u16))
Cycled(groups, ts, p) ==
    LET pg == PartGrid(groups, ts, p) IN CycleGrid(pg.grid, pg.repeats % 65536)

FlattenAndMerge ==
    /\ pc = "start"
    /\ \/ /\ DividesByZero(parts_and_groups)
          /\ pc' = "panicked"
          /\ plan' = [outcome |-> "panicked"]
          /\ UNCHANGED iterVars
       \/ /\ ~DividesByZero(parts_and_groups)
          /\ plan' = [outcome |-> "merged",
                      converges |-> Converges(time_signature,
                                      {LengthMap(parts_and_groups)[p] : p \in DOMAIN parts_and_groups}),
                      length_limit |-> LengthLimit(parts_and_groups, time_signature),
                      repeats |-> [p \in Parts |->
                                      PartGrid(parts_and_groups, time_signature, p).repeats],
                      cycled |-> [p \in Parts |-> Cycled(parts_and_groups, time_signature, p)]]
          /\ it' = EventIteratorNew(plan'.cycled[KickDrum], plan'.cycled[SnareDrum],
                                    plan'.cycled[HiHat], plan'.cycled[CrashCymbal])
          /\ srcs' = it'
          /\ out' = <<>> /\ ret' = NotCalled
          /\ pc' = "iter"
    /\ UNCHANGED <<parts_and_groups, time_signature, midi_tempo, tracks, ordVars, gridVars>>

(***************************************************************************)
(* create_tracks: the merged events are collected, the run aborts when     *)
(* there is none, otherwise one track is built and returned.               *)
(***************************************************************************)
MIDI_CLOCKS_PER_CLICK == 24

\* The restricted integers of the track format keep the low bits: u4::from
\* keeps 4, and `as u32` followed by u28::from keeps 28.
U4(n) == n % 16
U28(n) == n % 268435456

ToMidiKey(part) ==
    CASE part = KickDrum -> 36
      [] part = SnareDrum -> 38
      [] part = HiHat -> 46
      [] part = CrashCymbal -> 49

\* TimeSignature::to_midi: the numerator and the base-2 logarithm of the
\* denominator.
Log2Denominator(blen) ==
    CASE blen = "Whole" -> 0
      [] blen = "Half" -> 1
      [] blen = "Fourth" -> 2
      [] blen = "Eighth" -> 3
      [] blen = "Sixteenth" -> 4
      [] blen = "ThirtySecond" -> 5
      [] blen = "SixtyFourth" -> 6
TimeSignatureToMidi(ts) == <<ts.numerator, Log2Denominator(ts.denominator)>>

TrackEvent(delta, kind) == [delta |-> delta, kind |-> kind]
Midi(channel, message) == [tag |-> "Midi", channel |-> channel, message |-> message]
Meta(message) == [tag |-> "Meta", channel |-> 0, message |-> message]
MidiMessage(tag, key, vel) == [tag |-> tag, a |-> key, b |-> vel, c |-> 0, d |-> 0]
MetaMessage(tag, a, b, c, d) == [tag |-> tag, a |-> a, b |-> b, c |-> c, d |-> d]

Preamble(ts, tempo) ==
    LET sig == TimeSignatureToMidi(ts) IN
    << TrackEvent(0, Midi(9, MetaMessage("ProgramChange", 0, 0, 0, 0))),
       TrackEvent(0, Meta(MetaMessage("TrackName", "Drumkit", 0, 0, 0))),
       TrackEvent(0, Meta(MetaMessage("InstrumentName", "Drumkit", 0, 0, 0))),
       TrackEvent(0, Meta(MetaMessage("MidiChannel", 10, 0, 0, 0))),
       TrackEvent(0, Meta(MetaMessage("MidiPort", 10, 0, 0, 0))),
       TrackEvent(0, Meta(MetaMessage("Tempo", tempo, 0, 0, 0))),
       TrackEvent(0, Meta(MetaMessage("TimeSignature", sig[1], sig[2],
                                      MIDI_CLOCKS_PER_CLICK, 8))) >>

\* `for event in event_grid.events`, in the swapped-kind variant and as coded.
NoteMessagesKindSwapped(events) ==
    Vec([i \in DOMAIN events |->
           TrackEvent(U28(events[i].tick),
                      Midi(U4(10),
                           MidiMessage(IF events[i].event_type.tag = "NoteOn"
                                       THEN "NoteOff" ELSE "NoteOn",
                                       ToMidiKey(events[i].event_type.part), 127)))])

NoteMessages(events) ==
    Vec([i \in DOMAIN events |->
           TrackEvent(U28(events[i].tick),
                      Midi(U4(10),
                           MidiMessage(events[i].event_type.tag,
                                       ToMidiKey(events[i].event_type.part), 127)))])

Drums(events, ts, tempo) ==
    LET time == events[Len(events)].tick
        event_grid_tick == EventGrid(events, time)
        event_grid == ToDelta(event_grid_tick)
        drums == Preamble(ts, tempo) \o NoteMessages(event_grid.events)
    IN  Append(drums, TrackEvent(drums[Len(drums)].delta, Meta(MetaMessage("EndOfTrack", 0, 0, 0, 0))))

Returned(ts) == [tag |-> "Returned", tracks |-> ts]

\* The variant that builds the track before it looks for notes, and create_tracks.
TracksOfBuiltFirst(events, ts, tempo) ==
    IF events = <<>>
    THEN Returned(<<Append(Preamble(ts, tempo),
                           TrackEvent(0, Meta(MetaMessage("EndOfTrack", 0, 0, 0, 0))))>>)
    ELSE Returned(<<Drums(events, ts, tempo)>>)

TracksOf(events, ts, tempo) ==
    IF events = <<>> THEN NoTracks ELSE Returned(<<Drums(events, ts, tempo)>>)

CreateTracks ==
    /\ pc = "iter" /\ ret.tag = "None"
    /\ tracks' = TracksOf(out, time_signature, midi_tempo)
    /\ \/ tracks'.tag = "NotReturned" /\ pc' = "aborted"
       \/ tracks'.tag = "Returned" /\ pc' = "returned"
    /\ UNCHANGED <<parts_and_groups, time_signature, plan, midi_tempo, ordVars, gridVars, iterVars>>

(***************************************************************************)
(* A run: the parts and the meter are given, flatten_and_merge builds the  *)
(* iterator, and the caller drains it.                                     *)
(***************************************************************************)
Quarter == Simple(Plain("Fourth"))
Eighth == Simple(Plain("Eighth"))
Sixteenth == Simple(Plain("Sixteenth"))

\* groups("16xx-x-xx-") and groups("8-x--x-") of test_flatten_and_merge.
ScenarioKick == <<Group(<<Hit, Hit, Rest, Hit, Rest, Hit, Hit, Rest>>, Sixteenth, 1)>>
ScenarioSnare == <<Group(<<Rest, Hit, Rest, Rest, Hit, Rest>>, Eighth, 1)>>
FourFourth == TimeSignature(4, "Fourth")

RunNotes == {<<>>, <<Hit>>, <<Rest>>, <<Hit, Rest>>, <<Rest, Hit>>}
RunGroups == {Group(ns, Quarter, t) : ns \in RunNotes, t \in 0..MaxTimes}
PairGroups == {Group(<<Hit>>, Quarter, 1), Group(<<Hit, Rest>>, Quarter, 1)}
KickPool ==
    {ScenarioKick} \cup {<<g>> : g \in RunGroups} \cup {<<g, h>> : g \in PairGroups, h \in PairGroups}
SnarePool ==
    {ScenarioSnare, <<Group(<<Rest, Hit>>, Quarter, 1)>>,
     <<Group(<<Hit>>, Quarter, 1), Group(<<Rest>>, Quarter, 1)>>,
     <<Group(<<Hit>>, Quarter, 0)>>}
HiHatPool == {<<Group(<<Hit>>, Eighth, 2)>>}
CrashPool == {<<Group(<<Hit, Rest>>, Simple(Plain("Half")), 1)>>}
Meters == {FourFourth, TimeSignature(3, "Fourth")}
MidiTempos == {500000, 1000000}

PoolOf(p) ==
    CASE p = KickDrum -> KickPool
      [] p = SnareDrum -> SnarePool
      [] p = HiHat -> HiHatPool
      [] p = CrashCymbal -> CrashPool

Init ==
    /\ pc = "start"
    /\ \E given \in SUBSET Parts :
          parts_and_groups \in {f \in [given -> UNION {PoolOf(p) : p \in Parts}] :
                                   \A p \in given : f[p] \in PoolOf(p)}
    /\ time_signature \in Meters
    /\ midi_tempo \in MidiTempos
    /\ plan = NoPlan /\ tracks = NoTracks
    /\ OrdIdle /\ GridIdle /\ IterIdle

Next == FlattenAndMerge \/ IterNext \/ CreateTracks

Spec == Init /\ [][Next]_vars

(***************************************************************************)
(* Helpers of the properties.                                              *)
(***************************************************************************)
Count(s, e) == Cardinality({i \in DOMAIN s : s[i] = e})
SameBag(s, t) == Len(s) = Len(t) /\ \A i \in DOMAIN s : Count(s, s[i]) = Count(t, s[i])

RECURSIVE SumTicks(_, _)
SumTicks(s, i) == IF i = 0 THEN 0 ELSE SumTicks(s, i - 1) + s[i].tick

RECURSIVE Copies(_, _)
Copies(g, n) ==
    IF n = 0 THEN <<>>
    ELSE Copies(g, n - 1) \o ShiftEvents(g.events, (n - 1) * g.length)

IsOn(e) == e.event_type.tag = "NoteOn"
IsOff(e) == e.event_type.tag = "NoteOff"
PartOf(e) == e.event_type.part

\* The order the data model describes, spelled out case by case.
DescribedOrder(a, b) ==
    IF a.tick < b.tick THEN Less
    ELSE IF a.tick > b.tick THEN Greater
    ELSE IF PartOf(a) # PartOf(b)
         THEN (IF PartIndex(PartOf(a)) < PartIndex(PartOf(b)) THEN Less ELSE Greater)
    ELSE IF IsOff(a) /\ IsOn(b) THEN Less
    ELSE IF IsOn(a) /\ IsOff(b) THEN Greater
    ELSE Equal

Flip(o) == IF o = Less THEN Greater ELSE IF o = Greater THEN Less ELSE Equal

\* C1: Event::cmp is a total order: smaller tick first; at equal tick the
\* parts in declaration order whatever the kinds; at equal tick and part
\* NoteOff before NoteOn; Equal only for identical events; antisymmetric
\* and transitive on every pair and triple.
C1_EventOrderTotal ==
    pc \in {"compared", "sorted"} =>
        /\ ords.xy = DescribedOrder(x, y)
        /\ ords.yz = DescribedOrder(y, z)
        /\ ords.xz = DescribedOrder(x, z)
        /\ ords.yx = Flip(ords.xy) /\ ords.zy = Flip(ords.yz) /\ ords.zx = Flip(ords.xz)
        /\ (ords.xy = Equal <=> x = y) /\ (ords.yz = Equal <=> y = z)
        /\ (ords.xz = Equal <=> x = z)
        /\ (ords.xy # Greater /\ ords.yz # Greater => ords.xz # Greater)
        /\ (ords.xy = Less /\ ords.yz # Greater => ords.xz = Less)
        /\ (ords.xy # Greater /\ ords.yz = Less => ords.xz = Less)
        /\ (pc = "sorted" => IsSorted(vec) /\ SameBag(vec, <<x, y, z>>))

C1_Witness ==
    /\ pc = "sorted"
    /\ x.tick = y.tick /\ PartOf(x) = PartOf(y) /\ IsOff(x) /\ IsOn(y)
    /\ ords.xy = Less
    /\ z.tick = y.tick /\ PartIndex(PartOf(z)) < PartIndex(PartOf(y)) /\ IsOn(z)
    /\ ords.zx = Less
    /\ vec = <<z, x, y>>

\* C5: to_delta of an ascending grid keeps the number, kinds and order of
\* the events, and the deltas up to event i sum to the tick of event i.
C5_DeltaRoundTrip ==
    pc = "done" /\ op.name = "to_delta" =>
        /\ Len(res.events) = Len(ga.events)
        /\ \A i \in 1..Len(ga.events) :
              /\ res.events[i].event_type = ga.events[i].event_type
              /\ SumTicks(res.events, i) = ga.events[i].tick

C5_Witness ==
    /\ pc = "done" /\ op.name = "to_delta"
    /\ Len(ga.events) = 3
    /\ ga.events[1].tick = 1 /\ ga.events[2].tick = 1 /\ ga.events[3].tick = 3
    /\ res.events[1].tick = 1 /\ res.events[2].tick = 0 /\ res.events[3].tick = 2

\* C6: the empty grid is a two-sided identity of +: g + empty = g and
\* empty + g = g, events and length, and empty + empty = empty.
C6_EmptyIsIdentity ==
    pc = "done" /\ op.name = "add" =>
        /\ (gb = Empty => res = ga)
        /\ (ga = Empty => res = gb)

C6_Witness ==
    /\ pc = "done" /\ op.name = "add"
    /\ ga = Empty /\ Len(gb.events) = 2 /\ gb.length = 2 /\ gb.events[2].tick = 3
    /\ res = gb

\* C7: cycle_grid(g, 0) is empty, cycle_grid(g, 1) is g, the length of
\* cycle_grid(g, n) is n * g.length, its events are n copies of g's, the
\* k-th moved by k * g.length, and cycling the empty grid gives the empty grid.
C7_CycleGrid ==
    pc = "done" /\ op.name = "cycle" =>
        /\ (op.times = 0 => res = Empty)
        /\ (op.times = 1 => res = ga)
        /\ res.length = op.times * ga.length
        /\ SameBag(res.events, Copies(ga, op.times))
        /\ (ga = Empty => res = Empty)

C7_Witness ==
    /\ pc = "done" /\ op.name = "cycle" /\ op.times = 2
    /\ Len(ga.events) = 2 /\ ga.length = 2
    /\ Len(res.events) = 4 /\ res.length = 4
    /\ res.events[3].tick = ga.events[1].tick + 2

\* C8: after +, * and cycle_grid, and in every grid flatten_group and
\* flatten_groups return, the events are non-decreasing under the Event
\* order; a * b holds the events of both at their own ticks, sorted, with
\* length a.length + b.length.
C8_Sortedness ==
    pc = "done" /\ op.name \in {"add", "mul", "cycle", "flatten_group", "flatten_groups"} =>
        /\ IsSorted(res.events)
        /\ (op.name = "mul" =>
              /\ SameBag(res.events, ga.events \o gb.events)
              /\ res.length = ga.length + gb.length)

C8_Witness ==
    /\ pc = "done" /\ op.name = "mul"
    /\ Len(ga.events) = 2 /\ Len(gb.events) = 1
    /\ gb.events[1].tick < ga.events[2].tick
    /\ PartOf(gb.events[1]) = KickDrum /\ PartOf(ga.events[1]) = HiHat
    /\ ga.events[1].tick = gb.events[1].tick
    /\ res.events[1] = gb.events[1]
    /\ ga.length = 2 /\ gb.length = 1 /\ res.length = 3

\* The position in `notes` of the m-th Hit, and the events the claim lists
\* for a group of terminals: repetition by repetition, hit by hit.
NoNested(g) == \A i \in 1..Len(g.notes) : g.notes[i].kind = "SingleNote"
HitCount(notes, i) == Cardinality({j \in 1..i : notes[j] = Hit})
HitPos(notes, m) == CHOOSE i \in 1..Len(notes) : notes[i] = Hit /\ HitCount(notes, i) = m
ListedEvents(g, part) ==
    LET k == Len(g.notes)
        L == LengthToTicks(g.length)
        h == HitCount(g.notes, k)
    IN  [j \in 1..(2 * h * g.times) |->
            LET r == (j - 1) \div (2 * h)
                q == (j - 1) % (2 * h)
                i == HitPos(g.notes, (q \div 2) + 1) - 1
            IN  IF q % 2 = 0
                THEN Event(r * k * L + i * L, NoteOn(part))
                ELSE Event(r * k * L + (i + 1) * L, NoteOff(part))]

ScenarioA == Group(<<Hit, Rest, Rest>>, Simple(Plain("Eighth")), 2)
ScenarioAGrid ==
    EventGrid(<<Event(0, NoteOn(KickDrum)), Event(24, NoteOff(KickDrum)),
                Event(72, NoteOn(KickDrum)), Event(96, NoteOff(KickDrum))>>, 144)

\* C9: flattening from cursor 0 a group of k terminals of note length L
\* repeated n times gives, for each repetition r and each Hit at position
\* i, NoteOn at r*k*L + i*L and NoteOff at r*k*L + (i+1)*L, nothing for a
\* Rest, and length n*k*L; eighths hit,rest,rest twice give
\* NoteOn@0, NoteOff@24, NoteOn@72, NoteOff@96 and length 144.
C9_FlatGroup ==
    pc = "done" /\ op.name = "flatten_group" /\ pat.start = 0 /\ NoNested(pat.groups[1]) =>
        LET g == pat.groups[1] IN
        /\ res.events = ListedEvents(g, pat.part)
        /\ res.length = g.times * Len(g.notes) * LengthToTicks(g.length)
        /\ (g = ScenarioA /\ pat.part = KickDrum => res = ScenarioAGrid)

C9_Witness ==
    /\ pc = "done" /\ op.name = "flatten_group" /\ pat.start = 0
    /\ pat.groups[1] = ScenarioA /\ pat.part = KickDrum
    /\ res = ScenarioAGrid

AllExhausted(iter) == Candidates(iter) = {}
Restrict(s, p) == SelectSeq(s, LAMBDA e : PartOf(e) = p)
TotalEvents(iter) == Len(iter.kick) + Len(iter.snare) + Len(iter.hihat) + Len(iter.crash)

\* The order of two events as the merge is meant to yield them.
MayPrecede(a, b) ==
    \/ a.tick < b.tick
    \/ /\ a.tick = b.tick
       /\ \/ PartIndex(PartOf(a)) < PartIndex(PartOf(b))
          \/ PartOf(a) = PartOf(b) /\ ~(IsOn(a) /\ IsOff(b))

\* C2: over four sorted sources the events next() yields never go down in
\* the Event order: each is the least of the heads, so it may precede every
\* event still waiting, ticks never decrease, at one tick the parts come in
\* declaration order and a part's NoteOff comes before its NoteOn.
C2_MergeOrdered ==
    pc = "iter" =>
        /\ \A i \in 1..Len(out) : \A j \in (i + 1)..Len(out) : MayPrecede(out[i], out[j])
        /\ \A i \in 1..Len(out) : \A p \in Parts : \A j \in 1..Len(Peekable(it, p)) :
              MayPrecede(out[i], Peekable(it, p)[j])

C2_Witness ==
    /\ pc = "iter" /\ ret.tag = "None"
    /\ out = <<Event(0, NoteOn(SnareDrum)), Event(1, NoteOff(KickDrum)),
               Event(1, NoteOn(KickDrum)), Event(1, NoteOff(SnareDrum))>>

\* C3: the yielded events of one part, in order, followed by what is left
\* of that part's source, are the source as supplied: nothing is dropped,
\* duplicated or reordered within a part, and next() returns None exactly
\* when every source is exhausted, with as many events yielded as supplied.
C3_PerSourceFidelity ==
    pc = "iter" =>
        /\ \A p \in Parts : Restrict(out, p) \o Peekable(it, p) = Peekable(srcs, p)
        /\ Len(out) + TotalEvents(it) = TotalEvents(srcs)
        /\ (ret.tag = "None" => AllExhausted(it) /\ Len(out) = TotalEvents(srcs))
        /\ (ret.tag = "Some" => out # <<>> /\ ret.event = out[Len(out)])
        /\ (ret.tag = "NotCalled" => out = <<>>)

C3_Witness ==
    /\ pc = "iter" /\ ret.tag = "None"
    /\ Len(srcs.hihat) = 2 /\ Len(srcs.kick) = 1 /\ Len(srcs.crash) = 1
    /\ Len(out) = 4 /\ PartOf(out[1]) = HiHat /\ PartOf(out[2]) = KickDrum
    /\ PartOf(out[4]) = CrashCymbal
    /\ AllExhausted(it)

\* The length of one bar in ticks.
BarTicks(ts) == ts.numerator * BasicToTicks(ts.denominator)

\* C4: when the convergence query returns a bar count B, every part given
\* is repeated a whole number of times and every part's cycled grid has the
\* same length, B bars, whatever the number of top-level groups of its
\* pattern.
C4_CommonBoundary ==
    pc = "iter" /\ plan.converges.tag = "Some" =>
        \A p \in DOMAIN parts_and_groups :
            /\ plan.length_limit % LengthMap(parts_and_groups)[p] = 0
            /\ plan.cycled[p].length = plan.converges.value * BarTicks(time_signature)
            /\ \A q \in DOMAIN parts_and_groups :
                  plan.cycled[p].length = plan.cycled[q].length

KickEvents ==
    <<Event(0, NoteOn(KickDrum)), Event(12, NoteOff(KickDrum)),
      Event(12, NoteOn(KickDrum)), Event(24, NoteOff(KickDrum)),
      Event(36, NoteOn(KickDrum)), Event(48, NoteOff(KickDrum)),
      Event(60, NoteOn(KickDrum)), Event(72, NoteOff(KickDrum)),
      Event(72, NoteOn(KickDrum)), Event(84, NoteOff(KickDrum))>>
SnareEvents ==
    <<Event(24, NoteOn(SnareDrum)), Event(48, NoteOff(SnareDrum)),
      Event(96, NoteOn(SnareDrum)), Event(120, NoteOff(SnareDrum))>>

\* C10: flatten_and_merge of one part under 4/4 yields the events of one
\* pass of that part's flattened pattern and nothing more: the kick
\* pattern of test_flatten_and_merge gives its 10 events, the snare
\* pattern its 4.
C10_SinglePartOnePass ==
    /\ pc = "iter" /\ ret.tag = "None" /\ time_signature = FourFourth
    /\ Cardinality(DOMAIN parts_and_groups) = 1
    => LET p == CHOOSE q \in DOMAIN parts_and_groups : TRUE IN
       /\ out = FlattenGroups(p, parts_and_groups[p]).events
       /\ (p = KickDrum /\ parts_and_groups[p] = ScenarioKick => out = KickEvents)
       /\ (p = SnareDrum /\ parts_and_groups[p] = ScenarioSnare => out = SnareEvents)

\* What flatten_and_merge yields for the kick pattern of the run given alone
\* under the same meter: the cycled kick grid, or nothing when the call panics.
KickOnly == [p \in {KickDrum} |-> parts_and_groups[p]]
KickAloneStream ==
    IF DividesByZero(KickOnly) THEN <<>>
    ELSE Cycled(KickOnly, time_signature, KickDrum).events

\* C11: every event flatten_and_merge yields for the kick alone also occurs,
\* same tick and same kind, in the stream it yields for kick and snare
\* together, for any kick pattern, snare pattern and meter.
C11_KickSubset ==
    /\ DOMAIN parts_and_groups = {KickDrum, SnareDrum}
    /\ pc = "panicked" \/ (pc = "iter" /\ ret.tag = "None")
    => \A i \in DOMAIN KickAloneStream : \E j \in DOMAIN out : out[j] = KickAloneStream[i]

\* The number of NoteOn/NoteOff pairs a tree owes for the Hits whose own
\* group has note length L ticks: every enclosing repeat count multiplies.
RECURSIVE HitsOfLength(_, _)
RECURSIVE NotesHitsOfLength(_, _, _, _)
NotesHitsOfLength(notes, i, L, own) ==
    IF i = 0 THEN 0
    ELSE NotesHitsOfLength(notes, i - 1, L, own)
         + (IF notes[i].kind = "SingleGroup" THEN HitsOfLength(notes[i].group, L)
            ELSE IF notes[i].note = "Hit" /\ own = L THEN 1 ELSE 0)
HitsOfLength(g, L) ==
    g.times * NotesHitsOfLength(g.notes, Len(g.notes), L, LengthToTicks(g.length))

ShortTicks == LengthToTicks(Simple(Dotted("Sixteenth")))
LongTicks == LengthToTicks(Simple(Plain("Eighth")))

OnCount(es, t) == Cardinality({j \in DOMAIN es : IsOn(es[j]) /\ es[j].tick = t})
OffCount(es, t) == Cardinality({j \in DOMAIN es : IsOff(es[j]) /\ es[j].tick = t})

\* How many of the NoteOns at tick s must be closed ShortTicks later for
\* every NoteOff to close exactly one NoteOn ShortTicks or LongTicks before
\* it: the only assignment possible, fixed from the earliest tick on.
ShortOns(es, s) ==
    IF s < 0 \/ OnCount(es, s) = 0 THEN 0
    ELSE Cardinality({j \in DOMAIN es : /\ IsOff(es[j]) /\ es[j].tick <= s + ShortTicks
                                        /\ (s + ShortTicks - es[j].tick) % (LongTicks - ShortTicks) = 0})
         - Cardinality({j \in DOMAIN es : /\ IsOn(es[j]) /\ es[j].tick < s
                                          /\ (s - es[j].tick) % (LongTicks - ShortTicks) = 0})

\* Every NoteOn is closed by a NoteOff of its own, `short` of them after
\* ShortTicks and `long` of them after LongTicks.
PairedOnOff(es, short, long) ==
    LET ons == {j \in DOMAIN es : IsOn(es[j])}
        ticks == {es[j].tick : j \in ons}
        ends == {es[j].tick : j \in DOMAIN es \ ons}
                \cup {t + ShortTicks : t \in ticks} \cup {t + LongTicks : t \in ticks}
        rank(i) == Cardinality({j \in ons : j <= i /\ es[j].tick = es[i].tick})
    IN  /\ \A j \in ons : ShortOns(es, es[j].tick) \in 0..OnCount(es, es[j].tick)
        /\ \A u \in ends :
              OffCount(es, u) = ShortOns(es, u - ShortTicks)
                                + OnCount(es, u - LongTicks) - ShortOns(es, u - LongTicks)
        /\ Cardinality({i \in ons : rank(i) <= ShortOns(es, es[i].tick)}) = short
        /\ Cardinality(ons) = short + long

\* C12: in the grid flatten_group returns for any tree, nested groups
\* allowed, there are as many NoteOn as NoteOff events, one of each per
\* terminal Hit times the repeat counts of all the groups enclosing it
\* (none under a repeat count of 0); each NoteOn has its own NoteOff of the
\* same part one note length of the hit's group later; a Rest gives no event.
C12_HitPairs ==
    pc = "done" /\ op.name = "flatten_group" =>
        LET g == pat.groups[1]
            short == HitsOfLength(g, ShortTicks)
            long == HitsOfLength(g, LongTicks)
        IN  /\ Cardinality({j \in DOMAIN res.events : IsOn(res.events[j])}) = short + long
            /\ Cardinality({j \in DOMAIN res.events : IsOff(res.events[j])}) = short + long
            /\ \A j \in DOMAIN res.events : PartOf(res.events[j]) = pat.part
            /\ PairedOnOff(res.events, short, long)

\* A nested tree with both note lengths and repeat counts 2 and 2: the
\* inner Hit is played four times, the outer Hit twice.
C12_Witness ==
    /\ pc = "done" /\ op.name = "flatten_group"
    /\ pat.groups[1].times = 2 /\ pat.groups[1].length = Simple(Plain("Eighth"))
    /\ Len(pat.groups[1].notes) = 2
    /\ pat.groups[1].notes[1] = Hit
    /\ pat.groups[1].notes[2].kind = "SingleGroup"
    /\ pat.groups[1].notes[2].group = Group(<<Rest, Hit>>, Simple(Dotted("Sixteenth")), 2)
    /\ Len(res.events) = 12
    /\ HitsOfLength(pat.groups[1], ShortTicks) = 4
    /\ HitsOfLength(pat.groups[1], LongTicks) = 2

\* Whether a tree yields a note at all: a Hit under repeat counts above 0.
RECURSIVE AnyHit(_)
AnyHit(g) ==
    /\ g.times > 0
    /\ \E i \in DOMAIN g.notes :
          IF g.notes[i].kind = "SingleGroup" THEN AnyHit(g.notes[i].group)
          ELSE g.notes[i].note = "Hit"
NoHitGiven ==
    \A p \in DOMAIN parts_and_groups : \A i \in DOMAIN parts_and_groups[p] :
        ~AnyHit(parts_and_groups[p][i])
IsNoteMessage(e) == e.kind.tag = "Midi" /\ e.kind.message.tag \in {"NoteOn", "NoteOff"}

\* C13: create_tracks returns no track when the merged stream is empty (no
\* part given, or no pattern with a hit): the run aborts with nothing
\* built, so a track that is returned holds at least one note message and
\* a track of preamble only is never returned.
C13_NoTrackWithoutNotes ==
    /\ pc \in {"aborted", "returned"} /\ (out = <<>> \/ NoHitGiven \/ parts_and_groups = <<>>)
       => pc = "aborted" /\ tracks = NoTracks
    /\ pc \in {"start", "iter", "panicked", "aborted"} => tracks = NoTracks
    /\ pc = "returned" =>
          /\ tracks.tag = "Returned" /\ Len(tracks.tracks) = 1
          /\ \A t \in DOMAIN tracks.tracks :
                \E i \in DOMAIN tracks.tracks[t] : IsNoteMessage(tracks.tracks[t][i])

C13_Witness ==
    /\ pc = "aborted" /\ ret.tag = "None" /\ out = <<>>
    /\ DOMAIN parts_and_groups = {KickDrum}
    /\ parts_and_groups[KickDrum] = <<Group(<<Rest>>, Quarter, 2)>>
    /\ plan.outcome = "merged"
    /\ tracks = NoTracks

\* The General MIDI percussion keys and the heading of a track, as listed.
ListedKey(part) ==
    IF part = KickDrum THEN 36 ELSE IF part = SnareDrum THEN 38
    ELSE IF part = HiHat THEN 46 ELSE 49
HeadingTags ==
    <<"ProgramChange", "TrackName", "InstrumentName", "MidiChannel", "MidiPort",
      "Tempo", "TimeSignature">>
TagAt(track, i) == track[i].kind.message.tag
TagCount(track, tag) == Cardinality({i \in DOMAIN track : TagAt(track, i) = tag})

\* C14: for a merged stream that is not empty the one track returned is,
\* in this order, program change, track name, instrument name, channel and
\* port once each, one tempo event, one time-signature event (24 clocks
\* per click, 8 32nd notes per quarter), one note message per merged event
\* in merged order (kind kept, key 36/38/46/49, velocity 127, delta the
\* distance in ticks from the merged event before), and one end-of-track
\* event at the very end; no note message comes before a heading event.
C14_TrackLayout ==
    pc = "returned" =>
        LET track == tracks.tracks[1]
            n == Len(out)
            h == Len(HeadingTags)
        IN  /\ n > 0 /\ Len(tracks.tracks) = 1 /\ Len(track) = h + n + 1
            /\ \A i \in 1..h : TagAt(track, i) = HeadingTags[i] /\ track[i].delta = 0
            /\ \A i \in 1..h : TagCount(track, HeadingTags[i]) = 1
            /\ track[6].kind.message.a = midi_tempo
            /\ track[7].kind.message.c = 24 /\ track[7].kind.message.d = 8
            /\ \A i \in 1..n :
                  LET e == track[h + i] IN
                  /\ e.kind.tag = "Midi"
                  /\ e.kind.message.tag = out[i].event_type.tag
                  /\ e.kind.message.a = ListedKey(PartOf(out[i]))
                  /\ e.kind.message.b = 127
                  /\ e.delta = out[i].tick - (IF i = 1 THEN 0 ELSE out[i - 1].tick)
            /\ TagAt(track, h + n + 1) = "EndOfTrack" /\ TagCount(track, "EndOfTrack") = 1
            /\ \A i \in DOMAIN track : \A j \in 1..h : IsNoteMessage(track[i]) => j < i

\* All four parts in one track under 3/4: notes of several parts at one
\* tick (delta 0) and notes apart (delta above 0).
C14_Witness ==
    /\ pc = "returned" /\ DOMAIN parts_and_groups = Parts
    /\ time_signature = TimeSignature(3, "Fourth") /\ midi_tempo = 500000
    /\ Len(tracks.tracks[1]) = Len(out) + 8
    /\ Len(out) > 8
    /\ \E i \in 8..(Len(out) + 7) :
          /\ tracks.tracks[1][i].delta = 0 /\ tracks.tracks[1][i + 1].delta > 0
          /\ tracks.tracks[1][i].kind.message.a = 49
          /\ tracks.tracks[1][i].kind.message.tag = "NoteOn"
    /\ TagAt(tracks.tracks[1], Len(out) + 8) = "EndOfTrack"

\* The duration of a tree: the note lengths of its terminals and the
\* durations of its nested groups, times its repeat count.
RECURSIVE Duration(_)
RECURSIVE NotesDuration(_, _, _)
NotesDuration(notes, i, L) ==
    IF i = 0 THEN 0
    ELSE NotesDuration(notes, i - 1, L)
         + (IF notes[i].kind = "SingleGroup" THEN Duration(notes[i].group) ELSE L)
Duration(g) == g.times * NotesDuration(g.notes, Len(g.notes), LengthToTicks(g.length))

RECURSIVE DurationBefore(_, _)
DurationBefore(groups, j) ==
    IF j <= 1 THEN 0 ELSE DurationBefore(groups, j - 1) + Duration(groups[j - 1])

\* The events of group j flattened on its own from tick 0.
AloneEvents(groups, part, j) == FlattenGroup(groups[j], part, 0).grid.events

\* C15: the grid flatten_groups returns for a list of top-level groups has
\* the duration of the pattern as its length, the sum of the groups'
\* durations, and the groups lie back to back: the events of group j are
\* those of the group on its own moved by the durations of the groups
\* before it, the first of them at that sum when the group opens with a
\* Hit, with no gap and no second offset from the threaded cursor.
C15_GroupsBackToBack ==
    pc = "done" /\ op.name = "flatten_groups" =>
        /\ res.length = DurationBefore(pat.groups, Len(pat.groups) + 1)
        /\ \A j \in DOMAIN pat.groups :
              \A i \in DOMAIN AloneEvents(pat.groups, pat.part, j) :
                 LET e == AloneEvents(pat.groups, pat.part, j)[i] IN
                 Count(res.events, Event(e.tick + DurationBefore(pat.groups, j), e.event_type)) >= 1
        /\ \A i \in DOMAIN res.events : res.events[i].tick <= res.length

\* NoteOn, NoteOff, NoteOn, NoteOff, ...: from a NoteOn to a NoteOff.
Alternates(es) ==
    /\ Len(es) % 2 = 0
    /\ \A i \in DOMAIN es : IF i % 2 = 1 THEN IsOn(es[i]) ELSE IsOff(es[i])

\* C16: the events of a grid of one part that flatten_group or
\* flatten_groups returned, read in grid order, also after cycle_grid
\* repeated the grid, alternate strictly NoteOn, NoteOff from a NoteOn to a
\* NoteOff, whatever the nesting and the repeat counts: the part never has
\* a second NoteOn before the NoteOff of the note before, no notes overlap.
C16_OnOffAlternate ==
    pc = "done" /\ op.name \in {"flatten_group", "flatten_groups"} =>
        \A n \in 1..MaxTimes : Alternates(CycleGrid(res, n).events)

====
